---- MODULE Spec2Model ----
(***************************************************************************)
(* A model of the lesson / quiz session of the learning application:       *)
(* the LessonView component (its state, its handlers and the asynchronous  *)
(* continuations of those handlers), the CourseDetail handlers that mount  *)
(* and unmount it, and the two tables of the hosted store the session      *)
(* writes to (user_progress with its UNIQUE(user_id, lesson_id)            *)
(* constraint, and the append-only user_assessments).                      *)
(*                                                                         *)
(* Every request to the store is asynchronous.  A handler runs up to its   *)
(* first await in one step.  A write in flight takes two later steps: the  *)
(* store executes it, and, once its answer has arrived, the code after the *)
(* await runs.  Requests in flight proceed in any order, and user events   *)
(* may come in between.                                                    *)
(*                                                                         *)
(* A LessonView is rendered by a CourseDetail, whose handleLessonClose      *)
(* reloads the lessons and the Dashboard after every close; the user may   *)
(* leave the course with a lesson open.  The signed-in user stays the same *)
(* for a run: signOut belongs to the authentication context, which is not  *)
(* part of the sources modelled.                                           *)
(*                                                                         *)
(* Spec is the lesson session; SpecFail is one session with requests that  *)
(* may fail; SpecLongQuiz is one session on a quiz of LongQuiz questions.  *)
(* SpecStats renders the statistics of the Dashboard and   *)
(* of ProgressDashboard from every list of progress records within the     *)
(* bounds.  SpecProfile is updateProfile, SpecProfileOk its calls when all  *)
(* succeed; SpecLoad is the loads of the Dashboard and of CourseDetail,    *)
(* each read failing or not, around the opening and the closing of a       *)
(* lesson, with the fairness of the store's answers and of the             *)
(* continuations.  SpecTime is one lesson session with the wall     *)
(* clock advancing; SpecNoUser the session's operations without a user;    *)
(* SpecReload one lesson session inside CourseDetail, with the reloads     *)
(* that follow the close of the lesson.                                    *)
(***************************************************************************)
EXTENDS Integers, Sequences, FiniteSets

\* ------------------------------------------------------------------ bounds

\* Number of assessments of the quiz lesson.
NumQuestions == 2
\* Number of lesson views opened in one run.
MaxSessions == 1
\* Number of clicks on "Mark as Complete" in one lesson view.
MaxCompleteClicks == 1
\* Number of store requests in flight at once: a user event that sends requests
\* comes only when its requests fit.
MaxInFlight == 2

\* Number of progress records the Dashboard holds when it renders statistics.
MaxRecords == 3
\* Number of times a course is opened in one run of the Dashboard.
MaxCourseOpens == 2
\* Number of lessons opened in one visit of a course, where the reloads that
\* follow the close of a lesson are followed.
MaxReloadSessions == 1
\* Number of times a course is opened again in that visit.
MaxReloadOpens == 1
\* Number of times the wall clock advances along the Timeline.
MaxTicks == 2
\* Number of lessons opened while the wall clock is followed.
MaxTimedSessions == 1
\* Number of requests in flight when the user closes the lesson with its close
\* button, while the wall clock is followed.
MaxTimedInFlightAtClose == 0
\* Number of lessons opened where the requests of the session may fail.
MaxFailSessions == 1
\* Number of requests in flight when the user closes the lesson with its close
\* button, where the requests may fail.
MaxFailInFlightAtClose == 1
\* Number of questions of the long quiz, and of records in a long list of
\* progress records: the least totals at which a percentage that is a half in
\* exact arithmetic is computed below the half.
LongQuiz == 40
LongList == 40

\* ------------------------------------------------------------------ data

NoUser == "null"
NoLesson == "null"
NoCourse == "null"
NoProfile == [id |-> NoUser, full_name |-> "", learning_style |-> ""]
NoStats == [view |-> "none"]
\* A timestamp column that is NULL, a timestamp key that progressData lacks.
NoTime == -1
UserId == "u1"
CourseId == "c1"
Lessons == {"l1", "l2"}
LongLesson == "l3"
Options == {"a", "b"}
\* The row of profiles of the signed-in user.
UserProfile == [id |-> UserId, full_name |-> "Ann", learning_style |-> "visual"]

\* The published courses, the values of user_progress.status, and the value
\* time_spent_minutes takes in the records the statistics are rendered from.
Courses == {"c1", "c2"}
Statuses == {"not_started", "in_progress", "completed"}
Minutes == {5}

\* oneWeekAgo.setDate(oneWeekAgo.getDate() - 7): instants are counted in days.
Week == 7
\* new Date() at the render of the statistics.
Now == Week + 1

\* courses with is_published, by created_at descending; lessons of a course by
\* order_index ascending: the lessons belong to the first course.
PublishedCourses == <<"c2", "c1">>
LessonsOf(c) == IF c = CourseId THEN <<"l1", "l2", LongLesson>> ELSE << >>

\* lessons.content_type of the two lessons of the course.
ContentType(l) == IF l \in {"l2", LongLesson} THEN "quiz" ELSE "text"

\* The rows of the assessments table for a lesson (the data loadAssessments
\* fetches): the quiz lesson has NumQuestions of them, the long quiz LongQuiz.
AssessmentRows(l) ==
  IF ContentType(l) = "quiz"
  THEN [i \in 1..(IF l = LongLesson THEN LongQuiz ELSE NumQuestions) |->
          [id |-> i, lesson_id |-> l, options |-> Options,
           correct_answer |-> IF i % 2 = 1 THEN "a" ELSE "b"]]
  ELSE << >>

VARIABLES
  user,              \* useAuth().user: the id of the signed-in user, or NoUser
  selectedLesson,    \* CourseDetail: the lesson whose LessonView is mounted
  sid,               \* number of LessonViews mounted so far (names the mounted one)
  assessments,       \* LessonView state
  currentQuestion,   \* LessonView state (0-based)
  selectedAnswer,    \* LessonView state ("" when none)
  showExplanation,   \* LessonView state
  isCorrect,         \* LessonView state: "null", "true" or "false"
  quizCompleted,     \* LessonView state
  score,             \* LessonView state
  user_progress,     \* store table: sequence of rows, a row's id is its position
  user_assessments,  \* store table: sequence of rows in insertion order
  pending,           \* the requests in flight, each with the closure that awaits it
  issued,            \* history: the writes issued since the last mount, in order
  lastOp,            \* history: the handler the last step called ("submit", "next",
                     \* "complete", "close"), "leave" when the course was left,
                     \* "failed" after a write of the session failed, else "other"
  courses,           \* Dashboard state: the courses fetched, in the order fetched
  userProgress,      \* Dashboard state: the user's progress records fetched
  profile,           \* Dashboard state: the profile fetched, or NoProfile
  loading,           \* Dashboard state
  selectedCourse,    \* Dashboard state: the course whose CourseDetail is mounted
  lessons,           \* CourseDetail state: the lessons fetched
  detailProgress,    \* CourseDetail state userProgress: the course's records fetched
  detailLoading,     \* CourseDetail state loading
  profiles,          \* store table: the user's row of profiles, or NoProfile
  stats,             \* what the last render computed from courses and userProgress
  clock,             \* the position of the wall clock on the Timeline
  startTime          \* LessonView state: Date.now() at the mount of the view

\* The state of the LessonView and of what it writes.
lessonVars == <<selectedLesson, sid, assessments, currentQuestion, selectedAnswer,
                showExplanation, isCorrect, quizCompleted, score, user_assessments,
                startTime>>

\* The state of the Dashboard and of CourseDetail, the profiles table, the
\* rendered statistics.
dashVars == <<courses, userProgress, profile, loading, selectedCourse, lessons,
              detailProgress, detailLoading, profiles, stats>>

vars == <<user, selectedLesson, sid, assessments, currentQuestion, selectedAnswer,
          showExplanation, isCorrect, quizCompleted, score, user_progress,
          user_assessments, pending, issued, lastOp, courses, userProgress,
          profile, loading, selectedCourse, lessons, detailProgress, detailLoading,
          profiles, stats, clock, startTime>>

\* ------------------------------------------------------------------ pure helpers

\* Math.round(num / den) for num >= 0, den > 0: the nearest integer, a half rounds up.
MathRound(num, den) == (2 * num + den) \div (2 * den)

\* The greatest common divisor of a >= 0 and b >= 0.
RECURSIVE Gcd(_, _)
Gcd(a, b) == IF b = 0 THEN a ELSE Gcd(b, a % b)

\* The fractions num / den <= 2, in lowest terms, whose percentage is a half in
\* exact arithmetic while the double (num / den) * 100 lies just below it: the
\* quotient is rounded to a double before it is multiplied.  100 * num / den
\* is a half only when den in lowest terms is 8, 40 or 200.
HalfRoundedDown ==
  {<<23, 40>>, <<41, 40>>, <<51, 40>>, <<29, 200>>, <<57, 200>>, <<113, 200>>,
   <<201, 200>>, <<203, 200>>, <<207, 200>>, <<251, 200>>, <<253, 200>>}

\* Math.round((num / den) * 100) in double arithmetic, for 0 <= num <= 2 * den.
RoundPercent(num, den) ==
  LET g == Gcd(num, den)
  IN IF <<num \div g, den \div g>> \in HalfRoundedDown
     THEN MathRound(num * 100, den) - 1
     ELSE MathRound(num * 100, den)

\* The instants, in milliseconds, at which the wall clock is read: an opening
\* instant, the three successive milliseconds around half a minute after it,
\* and every full minute after that.
Timeline == <<0, 29999, 30000, 30001>>
Instant(n) ==
  IF n < Len(Timeline) THEN Timeline[n + 1] ELSE 60000 * (n - Len(Timeline) + 1)

TimeSpent_SinceEpoch(now, start) == MathRound(now, 60000)

\* Math.round((Date.now() - startTime) / 60000)
TimeSpent(now, start) == MathRound(now - start, 60000)

\* Math.round((Date.now() - startTime) / 1000)
TimeTaken(now, start) == MathRound(now - start, 1000)

\* Math.round(((currentQuestion + 1) / assessments.length) * 100)
QuizProgress(q, total) == RoundPercent(q + 1, total)

IsCorrectAnswer_Always(answer, assessment) == TRUE

\* selectedAnswer === currentAssessment.correct_answer
IsCorrectAnswer(answer, assessment) == answer = assessment.correct_answer

SubmitRejected_UserOnly(answer, u) == u = NoUser

SubmitRejected_AnswerOnly(answer, u) == answer = ""

\* if (!selectedAnswer || !user) return;
SubmitRejected(answer, u) == answer = "" \/ u = NoUser

\* lesson.content_type === 'quiz' && assessments.length > 0
QuizShown(l, as) == ContentType(l) = "quiz" /\ Len(as) > 0

\* Date.now(), new Date(): the reading of the wall clock.
DateNow == Instant(clock)

\* The readings of the wall clock by one handler that reads it k times (of
\* three at most), as positions on the Timeline: the first reading is the
\* instant of the call, and between a reading and the next the clock stands
\* or moves on by a millisecond.
ClockReads(k) ==
  {r \in [1..3 -> clock..(clock + 2)] :
     /\ r[1] = clock
     /\ \A i \in 1..2 :
          \/ r[i + 1] = r[i]
          \/ /\ i < k
             /\ r[i + 1] = r[i] + 1
             /\ r[i + 1] <= MaxTicks
             /\ Instant(r[i + 1]) = Instant(r[i]) + 1}

\* ------------------------------------------------------------------ the store

\* The ids of the user_progress rows of one (user, lesson).
RowsOf(table, u, l) ==
  {i \in 1..Len(table) : table[i].user_id = u /\ table[i].lesson_id = l}

Existing_Never(table, u, l) == 0

\* select('*').eq('user_id', ..).eq('lesson_id', ..).maybeSingle(): the id of the
\* one matching row; 0 (data null) when there is none, and also when there are
\* several (maybeSingle then answers with an error and no data).
Existing(table, u, l) ==
  IF Cardinality(RowsOf(table, u, l)) = 1
  THEN CHOOSE i \in RowsOf(table, u, l) : TRUE
  ELSE 0

\* progressData: last_accessed_at and completed_at are two readings of the
\* clock, and completed_at is a key only when the status is completed.
ProgressData(u, l, status, pct, timeSpent, accessedAt, completedAt) ==
  [user_id |-> u, lesson_id |-> l, course_id |-> CourseId,
   status |-> status, completion_percentage |-> pct,
   time_spent_minutes |-> timeSpent, last_accessed_at |-> accessedAt,
   completed_at |-> IF status = "completed" THEN completedAt ELSE NoTime]

\* The row an insert of data creates at instant now: started_at takes its
\* default now(), completed_at is NULL unless given.
NewRow(data, now) ==
  [user_id |-> data.user_id, lesson_id |-> data.lesson_id,
   course_id |-> data.course_id, status |-> data.status,
   completion_percentage |-> data.completion_percentage,
   time_spent_minutes |-> data.time_spent_minutes,
   last_accessed_at |-> data.last_accessed_at,
   completed_at |-> data.completed_at, started_at |-> now]

SetColumns_StartedAt(old, data) ==
  [old EXCEPT !.status = data.status,
              !.completion_percentage = data.completion_percentage,
              !.time_spent_minutes = data.time_spent_minutes,
              !.last_accessed_at = data.last_accessed_at,
              !.started_at = data.last_accessed_at]

\* The row after update(data): the columns that data carries take its values,
\* the others keep theirs.
SetColumns(old, data) ==
  [old EXCEPT !.user_id = data.user_id,
              !.lesson_id = data.lesson_id,
              !.course_id = data.course_id,
              !.status = data.status,
              !.completion_percentage = data.completion_percentage,
              !.time_spent_minutes = data.time_spent_minutes,
              !.last_accessed_at = data.last_accessed_at,
              !.completed_at = IF data.completed_at # NoTime
                               THEN data.completed_at ELSE old.completed_at]

\* user_id uuid NOT NULL REFERENCES profiles(id): the user has a row of profiles.
HasProfile(u) == profiles # NoProfile /\ profiles.id = u

\* insert(progressData) is rejected by UNIQUE(user_id, lesson_id) when the key
\* has a row, and by the reference to profiles when the user has no profile.
InsertRejected(table, data) ==
  \/ RowsOf(table, data.user_id, data.lesson_id) # {}
  \/ ~HasProfile(data.user_id)

\* insert(progressData)
InsertProgress(table, data, now) ==
  IF InsertRejected(table, data)
  THEN table
  ELSE Append(table, NewRow(data, now))

\* from('user_assessments').insert(row): rejected by the reference to profiles
\* when the user has no profile.
InsertAttempt(table, row) ==
  IF HasProfile(row.user_id) THEN Append(table, row) ELSE table

\* update(progressData).eq('id', existing.id)
UpdateProgressRow(table, id, data) ==
  IF id \in 1..Len(table)
  THEN [table EXCEPT ![id] = SetColumns(table[id], data)]
  ELSE table

\* ------------------------------------------------------------------ updateProgress

\* A name for a new request: the least number no request in flight bears.
NewId(P) == CHOOSE n \in 1..(Cardinality(P) + 1) : \A t \in P : t.id # n

\* The number of CourseDetail components mounted since the initial state: it
\* names the CourseDetail mounted now.
Opens == Cardinality({i \in 1..Len(issued) : issued[i].op = "open"})

\* updateProgress(status, completionPercentage) up to its first await: nothing
\* without a user; otherwise progressData is built and the existence select is
\* sent.  origin names the caller, cont what the caller does after the await,
\* start is the startTime of the view whose closure runs; now, accessedAt and
\* completedAt are the readings of the clock for the time spent, for
\* last_accessed_at and for completed_at.
\* alone records whether another upsert of the same lesson was in flight at any
\* moment of this one.  A completion of handleCompleteLesson keeps the onClose
\* the view was given: the handleLessonClose of the CourseDetail that rendered
\* it, mounted as number mount on course.
updateProgress(P, I, s, l, status, pct, origin, cont, start, now, accessedAt, completedAt) ==
  IF user = NoUser
  THEN [pending |-> P, issued |-> I]
  ELSE LET others == {t \in P : t.kind = "upsert" /\ t.lesson = l}
           marked == {IF t \in others THEN [t EXCEPT !.alone = FALSE] ELSE t : t \in P}
           timeSpent == TimeSpent(now, start)
           data == ProgressData(user, l, status, pct, timeSpent, accessedAt,
                                completedAt)
           new == [kind |-> "upsert", id |-> NewId(P), sid |-> s, user_id |-> user,
                   lesson |-> l, status |-> status, pct |-> pct, phase |-> "select",
                   existing |-> 0, cont |-> cont, alone |-> (others = {}),
                   data |-> data, error |-> FALSE,
                   mount |-> IF cont = "close" THEN Opens ELSE 0,
                   course |-> IF cont = "close" THEN selectedCourse ELSE NoCourse]
       IN [pending |-> marked \cup {new},
           issued |-> Append(I, [op |-> "upsert", sid |-> s, origin |-> origin,
                                 lesson |-> l, status |-> status, pct |-> pct,
                                 timeSpent |-> timeSpent, now |-> accessedAt])]

\* The effect of LessonView on mount: loadAssessments() for a quiz lesson, then
\* updateProgress('in_progress', 0).  The requests of session s on lesson l are
\* added to those in flight; the history of issued writes starts afresh.
\* The entry of the history is the mount of a CourseDetail.
IsCourseOpen(e) == e.op = "open"

\* r are the readings of the clock: startTime at the first render, then those
\* of updateProgress.
MountEffect_NoUpsert(P, s, l, r) ==
  [pending |-> IF ContentType(l) = "quiz"
               THEN P \cup {[kind |-> "load", id |-> NewId(P), sid |-> s, lesson |-> l]}
               ELSE P,
   issued |-> SelectSeq(issued, IsCourseOpen)]

MountEffect(P, s, l, r) ==
  LET withLoad == IF ContentType(l) = "quiz"
                  THEN P \cup {[kind |-> "load", id |-> NewId(P), sid |-> s, lesson |-> l]}
                  ELSE P
  IN updateProgress(withLoad, SelectSeq(issued, IsCourseOpen), s, l, "in_progress", 0,
                    "open", "none", Instant(r[1]), Instant(r[2]), Instant(r[3]),
                    Instant(r[3]))

\* ------------------------------------------------------------------ Init

\* A fresh LessonView (useState initial values).
MountState ==
  /\ assessments' = << >>
  /\ currentQuestion' = 0
  /\ selectedAnswer' = ""
  /\ showExplanation' = FALSE
  /\ isCorrect' = "null"
  /\ quizCompleted' = FALSE
  /\ score' = 0

\* The Dashboard and CourseDetail before any fetch (useState initial values),
\* nothing rendered yet.
DashDefaults ==
  /\ courses = << >>
  /\ userProgress = << >>
  /\ profile = NoProfile
  /\ loading = TRUE
  /\ selectedCourse = NoCourse
  /\ lessons = << >>
  /\ detailProgress = << >>
  /\ detailLoading = TRUE
  /\ stats = NoStats

\* No lesson open, no attempt logged, nothing in flight.
LessonDefaults ==
  /\ user = UserId
  /\ selectedLesson = NoLesson
  /\ sid = 0
  /\ assessments = << >>
  /\ currentQuestion = 0
  /\ selectedAnswer = ""
  /\ showExplanation = FALSE
  /\ isCorrect = "null"
  /\ quizCompleted = FALSE
  /\ score = 0
  /\ user_assessments = << >>
  /\ pending = {}
  /\ issued = << >>
  /\ lastOp = "other"
  /\ clock = 0
  /\ startTime = Instant(0)

\* The Dashboard has loaded the progress records rows and the course is open
\* in CourseDetail, its lessons and the records fetched, the lessons listed.
CourseLoaded(rows) ==
  /\ courses = PublishedCourses
  /\ userProgress = rows
  /\ profile = UserProfile
  /\ loading = FALSE
  /\ selectedCourse = CourseId
  /\ lessons = LessonsOf(CourseId)
  /\ detailProgress = rows
  /\ detailLoading = FALSE
  /\ stats = NoStats

\* What an earlier visit of the course left in user_progress: nothing, or the
\* record of the first lesson, completed.
EarlierRecords ==
  {<< >>, <<NewRow(ProgressData(UserId, "l1", "completed", 100, 0, 0, 0), 0)>>}

\* The signed-in user, who has a profile, is on the list of lessons of the
\* course, the records of an earlier visit loaded; no lesson is open yet.
Init ==
  /\ user_progress \in EarlierRecords
  /\ CourseLoaded(user_progress)
  /\ profiles = UserProfile
  /\ LessonDefaults

\* The same on a store with no progress record.
InitEmpty == Init /\ user_progress = << >>

\* ------------------------------------------------------------------ reloads

\* The result of a read not answered yet, or answered with an error: data null.
NoRows == [has |-> FALSE, data |-> << >>]
NoRow == [has |-> FALSE, data |-> NoProfile]

SetIfData_Always(prev, result) == result.data

\* if (result.data) setX(result.data)
SetIfData(prev, result) == IF result.has THEN result.data ELSE prev

\* loadData() up to its await: nothing without a user (if (!user) return);
\* otherwise the three reads are sent.
loadData(P) ==
  IF user = NoUser
  THEN P
  ELSE P \cup {[kind |-> "loadData", id |-> NewId(P), phase |-> "sent",
                coursesResult |-> NoRows, progressResult |-> NoRows,
                profileResult |-> NoRow]}

\* loadLessons() of the CourseDetail mounted as number m on course c, up to its
\* await: nothing without a user; otherwise the two reads are sent.
loadLessons(P, m, c) ==
  IF user = NoUser
  THEN P
  ELSE P \cup {[kind |-> "loadLessons", id |-> NewId(P), phase |-> "sent",
                mount |-> m, course |-> c, lessonsResult |-> NoRows,
                progressResult |-> NoRows]}

\* handleLessonClose of the CourseDetail mounted as number m on course c, after
\* its setSelectedLesson(null): loadLessons(), then onProgressUpdate(), which
\* is the Dashboard's loadData.  Both are sent whether or not that CourseDetail
\* is still mounted.
ReloadAfterClose(P, m, c) == loadData(loadLessons(P, m, c))

\* ------------------------------------------------------------------ actions

\* The list of lessons of CourseDetail is rendered, with lesson l on it: a
\* CourseDetail is mounted, no lesson view is shown in its place, and the
\* loading flag is cleared.
LessonListed(l) ==
  /\ selectedCourse # NoCourse
  /\ selectedLesson = NoLesson
  /\ ~detailLoading
  /\ \E i \in 1..Len(lessons) : lessons[i] = l

\* CourseDetail.handleLessonClick on a lesson of the list, the mount of
\* LessonView and its effect: loadAssessments() for a quiz, then
\* updateProgress('in_progress', 0).
HandleLessonClick(l) ==
  /\ UNCHANGED dashVars
  /\ LessonListed(l)
  /\ sid < MaxSessions
  /\ Cardinality(pending) + (IF ContentType(l) = "quiz" THEN 2 ELSE 1) <= MaxInFlight
  /\ selectedLesson' = l
  /\ sid' = sid + 1
  /\ MountState
  /\ \E r \in ClockReads(IF user = NoUser THEN 1 ELSE 3) :
       /\ startTime' = Instant(r[1])
       /\ clock' = r[3]
       /\ LET m == MountEffect(pending, sid + 1, l, r)
          IN /\ pending' = m.pending
             /\ issued' = m.issued
  /\ lastOp' = "other"
  /\ UNCHANGED <<user, user_progress, user_assessments>>

\* from('assessments').select('*').eq('lesson_id', l).order('order_index'):
\* the rows, or data null when the read fails.
AssessmentsRead(ok, l) ==
  IF ok THEN [has |-> TRUE, data |-> AssessmentRows(l)] ELSE NoRows

\* loadAssessments from the store's read to the end of the code after its
\* await: if (data) setAssessments(data).  The assessments table is changed by
\* no step, so the read and the continuation are one step.  A state update of
\* a LessonView that is no longer mounted has no effect.
ResolveLoadAssessments(t, ok) ==
  /\ UNCHANGED <<clock, startTime, dashVars>>
  /\ t \in pending /\ t.kind = "load"
  /\ pending' = pending \ {t}
  /\ assessments' = IF selectedLesson # NoLesson /\ sid = t.sid
                    THEN SetIfData(assessments, AssessmentsRead(ok, t.lesson))
                    ELSE assessments
  /\ lastOp' = "other"
  /\ UNCHANGED <<user, selectedLesson, sid, currentQuestion, selectedAnswer,
                 showExplanation, isCorrect, quizCompleted, score, user_progress,
                 user_assessments, issued>>

\* onClick of an option: !showExplanation && setSelectedAnswer(option)
SetSelectedAnswer(o) ==
  /\ UNCHANGED <<clock, startTime, dashVars>>
  /\ selectedLesson # NoLesson
  /\ QuizShown(selectedLesson, assessments)
  /\ ~quizCompleted
  /\ ~showExplanation
  /\ o \in assessments[currentQuestion + 1].options
  /\ selectedAnswer' = o
  /\ lastOp' = "other"
  /\ UNCHANGED <<user, selectedLesson, sid, assessments, currentQuestion,
                 showExplanation, isCorrect, quizCompleted, score, user_progress,
                 user_assessments, pending, issued>>

\* The "Submit Answer" button is rendered in place of the "Next" button while
\* the explanation is not shown.
SubmitButtonShown_Always(shown) == TRUE

SubmitButtonShown(shown) == ~shown

\* handleAnswerSubmit up to its first await (the insert into user_assessments).
\* The handler is that of the "Submit Answer" button, rendered while the quiz
\* is shown with no explanation.
HandleAnswerSubmit ==
  /\ UNCHANGED <<clock, startTime, dashVars>>
  /\ selectedLesson # NoLesson
  /\ QuizShown(selectedLesson, assessments)
  /\ ~quizCompleted
  /\ SubmitButtonShown(showExplanation)
  /\ Cardinality(pending) < MaxInFlight
  /\ lastOp' = "submit"
  /\ IF SubmitRejected(selectedAnswer, user)
     THEN UNCHANGED <<user, selectedLesson, sid, assessments, currentQuestion,
                      selectedAnswer, showExplanation, isCorrect, quizCompleted,
                      score, user_progress, user_assessments, pending, issued>>
     ELSE LET currentAssessment == assessments[currentQuestion + 1]
              correct == IsCorrectAnswer(selectedAnswer, currentAssessment)
              row == [user_id |-> user, assessment_id |-> currentAssessment.id,
                      user_answer |-> selectedAnswer, is_correct |-> correct,
                      time_taken_seconds |-> TimeTaken(DateNow, startTime)]
          IN /\ isCorrect' = IF correct THEN "true" ELSE "false"
             /\ showExplanation' = TRUE
             /\ score' = IF correct THEN score + 1 ELSE score
             /\ pending' = pending \cup
                  {[kind |-> "attempt", id |-> NewId(pending), sid |-> sid,
                    lesson |-> selectedLesson, row |-> row,
                    q |-> currentQuestion, total |-> Len(assessments),
                    start |-> startTime, phase |-> "sent", error |-> FALSE]}
             /\ issued' = Append(issued, [op |-> "attempt", sid |-> sid, row |-> row])
             /\ UNCHANGED <<user, selectedLesson, sid, assessments, currentQuestion,
                            selectedAnswer, quizCompleted, user_progress,
                            user_assessments>>

\* The store client answers a failed request with { data: null, error }: the
\* await does not throw, and the handlers read no error, so the statements after
\* an await run whatever the outcome ok of the request.
AfterAwait_Throws(ok) == ok

AfterAwait(ok) == TRUE

\* The store executes the insert into user_assessments, or fails to.
StoreInsertsAttempt(t, ok) ==
  /\ UNCHANGED <<clock, startTime, dashVars>>
  /\ t \in pending /\ t.kind = "attempt" /\ t.phase = "sent"
  /\ user_assessments' = IF ok THEN InsertAttempt(user_assessments, t.row)
                         ELSE user_assessments
  /\ pending' = (pending \ {t}) \cup
       {[t EXCEPT !.phase = "answered",
                  !.error = ~(ok /\ HasProfile(t.row.user_id))]}
  /\ lastOp' = "other"
  /\ UNCHANGED <<user, selectedLesson, sid, assessments, currentQuestion,
                 selectedAnswer, showExplanation, isCorrect, quizCompleted, score,
                 user_progress, issued>>

\* handleAnswerSubmit after the await of the insert into user_assessments:
\* progress is computed from the values the handler closed over, and
\* updateProgress('in_progress', progress) is called.
ResolveAttemptInsert(t) ==
  /\ UNCHANGED <<startTime, dashVars>>
  /\ t \in pending /\ t.kind = "attempt" /\ t.phase = "answered"
  /\ IF AfterAwait(~t.error)
     THEN \E r \in ClockReads(2) :
            /\ clock' = r[3]
            /\ LET u == updateProgress(pending \ {t}, issued, t.sid, t.lesson,
                                       "in_progress", QuizProgress(t.q, t.total),
                                       "submit", "none", t.start, Instant(r[1]),
                                       Instant(r[2]), Instant(r[3]))
               IN /\ pending' = u.pending
                  /\ issued' = u.issued
     ELSE /\ pending' = pending \ {t}
          /\ UNCHANGED <<clock, issued>>
  /\ lastOp' = IF t.error THEN "failed" ELSE "other"
  /\ UNCHANGED <<user, selectedLesson, sid, assessments, currentQuestion,
                 selectedAnswer, showExplanation, isCorrect, quizCompleted, score,
                 user_progress, user_assessments>>

\* The test of handleNextQuestion: question q is not the last of total.
HasNextQuestion_Never(q, total) == FALSE

HasNextQuestion_Always(q, total) == TRUE

HasNextQuestion(q, total) == q < total - 1

\* handleNextQuestion, the handler of the button shown with the explanation.
HandleNextQuestion ==
  /\ UNCHANGED <<startTime, dashVars>>
  /\ selectedLesson # NoLesson
  /\ QuizShown(selectedLesson, assessments)
  /\ ~quizCompleted
  /\ showExplanation
  /\ Cardinality(pending) < MaxInFlight
  /\ lastOp' = "next"
  /\ IF HasNextQuestion(currentQuestion, Len(assessments))
     THEN /\ currentQuestion' = currentQuestion + 1
          /\ selectedAnswer' = ""
          /\ showExplanation' = FALSE
          /\ isCorrect' = "null"
          /\ UNCHANGED <<user, selectedLesson, sid, assessments, quizCompleted, score,
                         user_progress, user_assessments, pending, issued, clock>>
     ELSE /\ quizCompleted' = TRUE
          /\ \E r \in ClockReads(IF user = NoUser THEN 1 ELSE 3) :
               /\ clock' = r[3]
               /\ LET u == updateProgress(pending, issued, sid, selectedLesson,
                                          "completed", 100, "next", "none", startTime,
                                          Instant(r[1]), Instant(r[2]), Instant(r[3]))
                  IN /\ pending' = u.pending
                     /\ issued' = u.issued
          /\ UNCHANGED <<user, selectedLesson, sid, assessments, currentQuestion,
                         selectedAnswer, showExplanation, isCorrect, score,
                         user_progress, user_assessments>>

\* CourseDetail.handleLessonClose (the onClose of LessonView), its first
\* statement: the view is unmounted.
onClose ==
  /\ selectedLesson' = NoLesson
  /\ MountState

\* Number of "Mark as Complete" clicks of the mounted view.
CompleteClicks ==
  Cardinality({i \in 1..Len(issued) :
     issued[i].op = "upsert" /\ issued[i].sid = sid /\ issued[i].origin = "complete"})

\* handleCompleteLesson with the await dropped: the upsert is sent and onClose()
\* is called at once.
HandleCompleteLesson_NoAwait ==
  /\ UNCHANGED <<startTime, dashVars>>
  /\ selectedLesson # NoLesson
  /\ ~QuizShown(selectedLesson, assessments)
  /\ CompleteClicks < MaxCompleteClicks
  /\ Cardinality(pending) < MaxInFlight
  /\ lastOp' = "complete"
  /\ onClose
  /\ \E r \in ClockReads(IF user = NoUser THEN 1 ELSE 3) :
       /\ clock' = r[3]
       /\ LET u == updateProgress(pending, issued, sid, selectedLesson,
                                  "completed", 100, "complete", "none", startTime,
                                  Instant(r[1]), Instant(r[2]), Instant(r[3]))
          IN /\ pending' = ReloadAfterClose(u.pending, Opens, selectedCourse)
             /\ issued' = u.issued
  /\ UNCHANGED <<user, sid, user_progress, user_assessments>>

\* handleCompleteLesson up to the await of updateProgress('completed', 100); the
\* button is rendered whenever the quiz is not.  Without a user updateProgress
\* returns at once and onClose() follows.
HandleCompleteLesson ==
  /\ UNCHANGED <<startTime, dashVars>>
  /\ selectedLesson # NoLesson
  /\ ~QuizShown(selectedLesson, assessments)
  /\ CompleteClicks < MaxCompleteClicks
  /\ Cardinality(pending) < MaxInFlight
  /\ lastOp' = "complete"
  /\ IF user = NoUser
     THEN /\ onClose
          /\ pending' = ReloadAfterClose(pending, Opens, selectedCourse)
          /\ UNCHANGED <<user, sid, user_progress, user_assessments, issued, clock>>
     ELSE /\ \E r \in ClockReads(3) :
               /\ clock' = r[3]
               /\ LET u == updateProgress(pending, issued, sid, selectedLesson,
                                          "completed", 100, "complete", "close",
                                          startTime, Instant(r[1]), Instant(r[2]),
                                          Instant(r[3]))
                  IN /\ pending' = u.pending
                     /\ issued' = u.issued
          /\ UNCHANGED <<user, selectedLesson, sid, assessments, currentQuestion,
                         selectedAnswer, showExplanation, isCorrect, quizCompleted,
                         score, user_progress, user_assessments>>

\* The store executes the existence select of updateProgress: it reads the
\* row of the key, or fails to (data null).
StoreSelectsProgress(t, ok) ==
  /\ UNCHANGED <<clock, startTime, dashVars>>
  /\ t \in pending /\ t.kind = "upsert" /\ t.phase = "select"
  /\ pending' = (pending \ {t}) \cup
       {[t EXCEPT !.phase = "selected",
                  !.existing = IF ok
                               THEN Existing(user_progress, t.user_id, t.lesson)
                               ELSE 0,
                  !.error = ~ok]}
  /\ lastOp' = "other"
  /\ UNCHANGED <<user, selectedLesson, sid, assessments, currentQuestion,
                 selectedAnswer, showExplanation, isCorrect, quizCompleted, score,
                 user_progress, user_assessments, issued>>

\* updateProgress after the await of its select: the update or the insert is
\* chosen from the row the answer holds, and sent.
ResolveSelect(t) ==
  /\ UNCHANGED <<clock, startTime, dashVars>>
  /\ t \in pending /\ t.kind = "upsert" /\ t.phase = "selected"
  /\ pending' = IF AfterAwait(~t.error)
                THEN (pending \ {t}) \cup
                       {[t EXCEPT !.phase = "write", !.error = FALSE]}
                ELSE pending \ {t}
  /\ lastOp' = IF t.error THEN "failed" ELSE "other"
  /\ UNCHANGED <<user, selectedLesson, sid, assessments, currentQuestion,
                 selectedAnswer, showExplanation, isCorrect, quizCompleted, score,
                 user_progress, user_assessments, issued>>

\* The store executes the write of updateProgress, or fails to: the update of
\* the row found, or the insert, whose started_at is the store's now().
StoreWritesProgress(t, ok) ==
  /\ UNCHANGED <<clock, startTime, dashVars>>
  /\ t \in pending /\ t.kind = "upsert" /\ t.phase = "write"
  /\ user_progress' =
       IF ~ok THEN user_progress
       ELSE IF t.existing # 0
            THEN UpdateProgressRow(user_progress, t.existing, t.data)
            ELSE InsertProgress(user_progress, t.data, DateNow)
  /\ pending' = (pending \ {t}) \cup
       {[t EXCEPT !.phase = "written",
                  !.error = \/ ~ok
                            \/ t.existing = 0 /\ InsertRejected(user_progress, t.data)]}
  /\ lastOp' = "other"
  /\ UNCHANGED <<user, selectedLesson, sid, assessments, currentQuestion,
                 selectedAnswer, showExplanation, isCorrect, quizCompleted, score,
                 user_assessments, issued>>

\* updateProgress after the await of its write: it returns, and
\* handleCompleteLesson then calls the onClose its view was given.  The
\* setSelectedLesson(null) of a CourseDetail that is no longer mounted has no
\* effect; its reloads are sent all the same.
ResolveWrite(t) ==
  /\ UNCHANGED <<clock, startTime, dashVars>>
  /\ t \in pending /\ t.kind = "upsert" /\ t.phase = "written"
  /\ pending' = IF t.cont = "close" /\ AfterAwait(~t.error)
                THEN ReloadAfterClose(pending \ {t}, t.mount, t.course)
                ELSE pending \ {t}
  /\ lastOp' = IF t.error THEN "failed" ELSE "other"
  /\ IF /\ t.cont = "close" /\ AfterAwait(~t.error)
        /\ selectedCourse # NoCourse /\ Opens = t.mount
     THEN onClose
     ELSE UNCHANGED <<selectedLesson, assessments, currentQuestion, selectedAnswer,
                      showExplanation, isCorrect, quizCompleted, score>>
  /\ UNCHANGED <<user, sid, user_progress, user_assessments, issued>>

\* The close button of the header and "Continue Learning": the onClose of the
\* CourseDetail that shows the view.
CloseLesson ==
  /\ UNCHANGED <<clock, startTime, dashVars>>
  /\ selectedLesson # NoLesson
  /\ onClose
  /\ pending' = ReloadAfterClose(pending, Opens, selectedCourse)
  /\ lastOp' = "close"
  /\ UNCHANGED <<user, sid, user_progress, user_assessments, issued>>

\* ------------------------------------------------------------------ loadData, loadLessons

\* from('courses').select('*').eq('is_published', true).order('created_at', ..)
CoursesRead(ok) == IF ok THEN [has |-> TRUE, data |-> PublishedCourses] ELSE NoRows

\* from('user_progress').select('*').eq('user_id', u)
ProgressRead(ok, u) ==
  LET Mine(r) == r.user_id = u
  IN IF ok THEN [has |-> TRUE, data |-> SelectSeq(user_progress, Mine)] ELSE NoRows

\* from('profiles').select('*').eq('id', u).maybeSingle(): data is null when
\* the user has no row.
ProfileRead(ok, u) ==
  IF ok /\ profiles # NoProfile /\ profiles.id = u
  THEN [has |-> TRUE, data |-> profiles]
  ELSE NoRow

\* from('lessons').select('*').eq('course_id', c).order('order_index', ..)
LessonsRead(ok, c) == IF ok THEN [has |-> TRUE, data |-> LessonsOf(c)] ELSE NoRows

\* from('user_progress').select('*').eq('user_id', u).eq('course_id', c)
CourseProgressRead(ok, u, c) ==
  LET Mine(r) == r.user_id = u /\ r.course_id = c
  IN IF ok THEN [has |-> TRUE, data |-> SelectSeq(user_progress, Mine)] ELSE NoRows

\* The Dashboard is mounted and its effect has called loadData(); the store
\* holds the user's profile or none and, with a profile, one progress record or
\* none.
InitLoad ==
  /\ DashDefaults
  /\ profiles \in {NoProfile,
                   UserProfile}
  /\ user_progress \in {<< >>,
                        <<NewRow(ProgressData(UserId, "l1", "completed", 100, 0, 0, 0), 0)>>}
  /\ user_progress # << >> => profiles # NoProfile
  /\ user = UserId
  /\ selectedLesson = NoLesson
  /\ sid = 0
  /\ assessments = << >>
  /\ currentQuestion = 0
  /\ selectedAnswer = ""
  /\ showExplanation = FALSE
  /\ isCorrect = "null"
  /\ quizCompleted = FALSE
  /\ score = 0
  /\ user_assessments = << >>
  /\ pending = loadData({})
  /\ issued = << >>
  /\ lastOp = "other"
  /\ clock = 0
  /\ startTime = Instant(0)

\* The store answers the three reads of a loadData, each with data or an error.
AnswerLoadData(t, okCourses, okProgress, okProfile) ==
  /\ t \in pending /\ t.kind = "loadData" /\ t.phase = "sent"
  /\ pending' = (pending \ {t}) \cup
       {[t EXCEPT !.phase = "answered",
                  !.coursesResult = CoursesRead(okCourses),
                  !.progressResult = ProgressRead(okProgress, user),
                  !.profileResult = ProfileRead(okProfile, user)]}
  /\ lastOp' = "other"
  /\ UNCHANGED <<user, user_progress, issued, clock, lessonVars, dashVars>>

\* loadData after its await, finally included.
ResolveLoadData(t) ==
  /\ t \in pending /\ t.kind = "loadData" /\ t.phase = "answered"
  /\ courses' = SetIfData(courses, t.coursesResult)
  /\ userProgress' = SetIfData(userProgress, t.progressResult)
  /\ profile' = SetIfData(profile, t.profileResult)
  /\ loading' = FALSE
  /\ pending' = pending \ {t}
  /\ lastOp' = "other"
  /\ UNCHANGED <<user, user_progress, issued, clock, lessonVars, selectedCourse, lessons,
                 detailProgress, detailLoading, profiles, stats>>

\* Dashboard.handleCourseClick on a course card: CourseDetail is mounted and its
\* effect calls loadLessons().
HandleCourseClick(c) ==
  /\ ~loading
  /\ selectedCourse = NoCourse
  /\ \E i \in 1..Len(courses) : courses[i] = c
  /\ Opens < MaxCourseOpens
  /\ Cardinality(pending) < MaxInFlight
  /\ selectedCourse' = c
  /\ lessons' = << >>
  /\ detailProgress' = << >>
  /\ detailLoading' = TRUE
  /\ issued' = Append(issued, [op |-> "open", course |-> c])
  /\ pending' = loadLessons(pending, Opens + 1, c)
  /\ lastOp' = "other"
  /\ UNCHANGED <<user, user_progress, clock, lessonVars, courses, userProgress, profile,
                 loading, profiles, stats>>

\* The store answers the two reads of a loadLessons.
AnswerLoadLessons(t, okLessons, okProgress) ==
  /\ t \in pending /\ t.kind = "loadLessons" /\ t.phase = "sent"
  /\ pending' = (pending \ {t}) \cup
       {[t EXCEPT !.phase = "answered",
                  !.lessonsResult = LessonsRead(okLessons, t.course),
                  !.progressResult = CourseProgressRead(okProgress, user, t.course)]}
  /\ lastOp' = "other"
  /\ UNCHANGED <<user, user_progress, issued, clock, lessonVars, dashVars>>

\* loadLessons after its await; the state of a CourseDetail that is no longer
\* mounted is not set.
ResolveLoadLessons(t) ==
  /\ t \in pending /\ t.kind = "loadLessons" /\ t.phase = "answered"
  /\ IF selectedCourse # NoCourse /\ Opens = t.mount
     THEN /\ lessons' = SetIfData(lessons, t.lessonsResult)
          /\ detailProgress' = SetIfData(detailProgress, t.progressResult)
          /\ detailLoading' = FALSE
     ELSE UNCHANGED <<lessons, detailProgress, detailLoading>>
  /\ pending' = pending \ {t}
  /\ lastOp' = "other"
  /\ UNCHANGED <<user, user_progress, issued, clock, lessonVars, courses, userProgress,
                 profile, loading, selectedCourse, profiles, stats>>

\* handleBackToCourses, or a button of the navigation bar (they stay enabled
\* under a lesson view, within reach of the keyboard): CourseDetail is
\* unmounted, and with it the LessonView it shows; handleLessonClose is not
\* called, and the requests in flight stay in flight.
LeaveCourse ==
  /\ selectedCourse # NoCourse
  /\ selectedCourse' = NoCourse
  /\ onClose
  /\ lastOp' = "leave"
  /\ UNCHANGED <<user, user_progress, user_assessments, pending, issued, clock, sid,
                 startTime, courses, userProgress, profile, loading, lessons,
                 detailProgress, detailLoading, profiles, stats>>

\* ------------------------------------------------------------------ the session's steps

\* The steps of the store and the continuations of the session's requests,
\* every request succeeding: those of an open lesson view, and those of the
\* answers to a quiz.
ResolveView ==
  \/ \E t \in pending : ResolveLoadAssessments(t, TRUE)
  \/ \E t \in pending : StoreSelectsProgress(t, TRUE)
  \/ \E t \in pending : ResolveSelect(t)
  \/ \E t \in pending : StoreWritesProgress(t, TRUE)
  \/ \E t \in pending : ResolveWrite(t)

ResolveAnswers ==
  \/ \E t \in pending : StoreInsertsAttempt(t, TRUE)
  \/ \E t \in pending : ResolveAttemptInsert(t)

Resolve ==
  \/ ResolveView
  \/ ResolveAnswers

\* The events of the user in a lesson view: those of the quiz, and all.
QuizEvent ==
  \/ \E o \in Options : SetSelectedAnswer(o)
  \/ HandleAnswerSubmit
  \/ HandleNextQuestion

UserEvent ==
  \/ QuizEvent
  \/ HandleCompleteLesson
  \/ CloseLesson

\* The reloads that follow the close of a lesson: the store answers their
\* reads with data, and the code after their awaits runs.
ResolveReloads ==
  \/ \E t \in pending : AnswerLoadData(t, TRUE, TRUE, TRUE)
  \/ \E t \in pending : ResolveLoadData(t)
  \/ \E t \in pending : AnswerLoadLessons(t, TRUE, TRUE)
  \/ \E t \in pending : ResolveLoadLessons(t)

\* The lesson sessions of one visit of the course, which the user may leave at
\* any moment.
Next ==
  \/ \E l \in Lessons : HandleLessonClick(l)
  \/ UserEvent
  \/ Resolve
  \/ ResolveReloads
  \/ LeaveCourse

Spec == Init /\ [][Next]_vars

\* ------------------------------------------------------------------ the clock

\* Time passes: the wall clock moves to the next instant of the Timeline.
Tick ==
  /\ clock < MaxTicks
  /\ clock' = clock + 1
  /\ UNCHANGED <<user, user_progress, pending, issued, lastOp, lessonVars, dashVars>>

\* The lesson session with the wall clock advancing between any two steps, and
\* between the readings of one handler.
NextTime ==
  \/ Tick
  \/ \E l \in Lessons : sid < MaxTimedSessions /\ HandleLessonClick(l)
  \/ QuizEvent
  \/ HandleCompleteLesson
  \/ Cardinality(pending) <= MaxTimedInFlightAtClose /\ CloseLesson
  \/ Resolve
  \/ ResolveReloads
  \/ LeaveCourse

SpecTime == InitEmpty /\ [][NextTime]_vars

\* ------------------------------------------------------------------ failing requests

\* One lesson session whose requests may fail: the read of the assessments,
\* the insert into user_assessments, the existence select and the write of
\* updateProgress.
NextFail ==
  \/ \E l \in Lessons : sid < MaxFailSessions /\ HandleLessonClick(l)
  \/ QuizEvent
  \/ HandleCompleteLesson
  \/ Cardinality(pending) <= MaxFailInFlightAtClose /\ CloseLesson
  \/ Resolve
  \/ ResolveReloads
  \/ LeaveCourse
  \/ \E t \in pending : ResolveLoadAssessments(t, FALSE)
  \/ \E t \in pending : StoreInsertsAttempt(t, FALSE)
  \/ \E t \in pending : StoreSelectsProgress(t, FALSE)
  \/ \E t \in pending : StoreWritesProgress(t, FALSE)

SpecFail == InitEmpty /\ [][NextFail]_vars

\* ------------------------------------------------------------------ the long quiz

\* One session on the quiz of LongQuiz questions: the user answers each
\* question with the first option and goes on, each time after the requests
\* sent before have been answered.
NextLongQuiz ==
  \/ sid = 0 /\ HandleLessonClick(LongLesson)
  \/ pending = {} /\ SetSelectedAnswer("a")
  \/ pending = {} /\ HandleAnswerSubmit
  \/ pending = {} /\ HandleNextQuestion
  \/ Resolve

SpecLongQuiz == InitEmpty /\ [][NextLongQuiz]_vars

\* ------------------------------------------------------------------ no user

\* The states of a LessonView: none mounted, a lesson with its content shown,
\* or the quiz at any question, answered or not.
ViewStates ==
  {v \in [selectedLesson : Lessons \cup {NoLesson},
          assessments : {<< >>} \cup {AssessmentRows(l) : l \in Lessons},
          currentQuestion : 0..(NumQuestions - 1),
          selectedAnswer : Options \cup {""},
          showExplanation : BOOLEAN,
          score : 0..NumQuestions] :
     /\ v.selectedLesson = NoLesson => v.assessments = << >>
     /\ v.selectedLesson # NoLesson =>
           v.assessments \in {<< >>, AssessmentRows(v.selectedLesson)}
     /\ v.assessments = << >> =>
           /\ v.currentQuestion = 0
           /\ v.selectedAnswer = ""
           /\ ~v.showExplanation
           /\ v.score = 0
     /\ v.showExplanation => v.selectedAnswer # ""
     /\ v.score <= v.currentQuestion +
           (IF /\ v.showExplanation
               /\ IsCorrectAnswer(v.selectedAnswer, v.assessments[v.currentQuestion + 1])
            THEN 1 ELSE 0)
     /\ (/\ v.showExplanation
         /\ IsCorrectAnswer(v.selectedAnswer, v.assessments[v.currentQuestion + 1]))
           => v.score >= 1}

\* A course shown with useAuth().user null and no write in flight: no lesson
\* opened yet, or the quiz open at any question, checked or not yet touched
\* (a lesson just opened is reached by handleLessonClick, a chosen option by
\* setSelectedAnswer).  The store holds what an earlier session of
\* a user left: nothing, or one progress record.
InitNoUser ==
  /\ CourseLoaded(<< >>)
  /\ profiles = UserProfile
  /\ user = NoUser
  /\ \E v \in ViewStates :
       /\ v.selectedLesson # NoLesson => v.assessments # << >>
       /\ v.selectedAnswer # "" => v.showExplanation
       /\ selectedLesson = v.selectedLesson
       /\ sid = IF v.selectedLesson = NoLesson THEN 0 ELSE 1
       /\ assessments = v.assessments
       /\ currentQuestion = v.currentQuestion
       /\ selectedAnswer = v.selectedAnswer
       /\ showExplanation = v.showExplanation
       /\ isCorrect = IF ~v.showExplanation THEN "null"
                      ELSE IF IsCorrectAnswer(v.selectedAnswer,
                                              v.assessments[v.currentQuestion + 1])
                           THEN "true" ELSE "false"
       /\ score = v.score
       /\ pending = {}
  /\ quizCompleted = FALSE
  /\ user_progress \in {<< >>,
                        <<NewRow(ProgressData(UserId, "l1", "completed", 100, 0, 0, 0), 0)>>,
                        <<NewRow(ProgressData(UserId, "l2", "in_progress", 50, 0, 0, 0), 0)>>}
  /\ user_assessments = << >>
  /\ issued = << >>
  /\ lastOp = "other"
  /\ clock = 0
  /\ startTime = Instant(0)

\* The operations of the session; without a user no write is sent, so none
\* resolves.
NextNoUser ==
  \/ \E l \in Lessons : HandleLessonClick(l)
  \/ \E t \in pending : ResolveLoadAssessments(t, TRUE)
  \/ \E o \in Options : SetSelectedAnswer(o)
  \/ HandleAnswerSubmit
  \/ HandleNextQuestion
  \/ HandleCompleteLesson
  \/ CloseLesson

SpecNoUser == InitNoUser /\ [][NextNoUser]_vars

\* ------------------------------------------------------------------ statistics

\* The progress records the statistics read: course_id, status,
\* time_spent_minutes, last_accessed_at (one day before the week starts, the
\* instant it starts, one day after).
ProgressRecords ==
  [course_id : Courses, status : Statuses, time_spent_minutes : Minutes,
   last_accessed_at : {Now - Week - 1, Now - Week, Now - Week + 1}]

RecordLists == UNION {[1..n -> ProgressRecords] : n \in 0..MaxRecords}

\* The long lists: LongList records of one course, accessed at one instant, the
\* first k of them completed and the others in progress.
LongLists ==
  {[i \in 1..LongList |->
      [course_id |-> CourseId,
       status |-> IF i <= k THEN "completed" ELSE "in_progress",
       time_spent_minutes |-> CHOOSE m \in Minutes : TRUE,
       last_accessed_at |-> Now]] : k \in 0..LongList}

\* The fetched courses: each published course once, in either order.
CourseLists == {cs \in [1..Cardinality(Courses) -> Courses] :
                  \A i, j \in 1..Len(cs) : i # j => cs[i] # cs[j]}

\* ps.filter(p => p.status === 'completed').length
CompletedCount(ps) ==
  LET Completed(p) == p.status = "completed"
  IN Len(SelectSeq(ps, Completed))

\* ps.reduce((sum, p) => sum + p.time_spent_minutes, 0)
RECURSIVE SumMinutes(_)
SumMinutes(ps) ==
  IF ps = << >> THEN 0 ELSE ps[1].time_spent_minutes + SumMinutes(Tail(ps))

InWindow_Strict(at, oneWeekAgo) == at > oneWeekAgo

\* new Date(p.last_accessed_at) >= oneWeekAgo
InWindow(at, oneWeekAgo) == at >= oneWeekAgo

\* ProgressDashboard.calculateWeeklyStats, with now the reading of new Date().
calculateWeeklyStats(ps, now) ==
  LET oneWeekAgo == now - Week
      Recent(p) == InWindow(p.last_accessed_at, oneWeekAgo)
      weeklyProgress == SelectSeq(ps, Recent)
  IN [lessonsThisWeek |-> CompletedCount(weeklyProgress),
      minutesThisWeek |-> SumMinutes(weeklyProgress)]

\* CourseCard: the percentage of the records it is given.
progressPercentage(progress) ==
  LET completedLessons == CompletedCount(progress)
      totalLessons == Len(progress)
  IN IF totalLessons > 0 THEN RoundPercent(completedLessons, totalLessons) ELSE 0

\* CourseDetail: completedCount over lessons.length, as a rounded percentage.
CourseDetailPercentage(ls, progress) ==
  LET completedCount == CompletedCount(progress)
  IN IF Len(ls) > 0 THEN RoundPercent(completedCount, Len(ls)) ELSE 0

\* ProgressDashboard.getCourseProgress
getCourseProgress(ps, courseId) ==
  LET OfCourse(p) == p.course_id = courseId
      courseProgress == SelectSeq(ps, OfCourse)
      completed == CompletedCount(courseProgress)
      total == Len(courseProgress)
  IN IF total > 0 THEN RoundPercent(completed, total) ELSE 0

IsActive_InProgressOnly(status) == status = "in_progress"

\* p.status !== 'not_started'
IsActive(status) == status # "not_started"

\* ProgressDashboard: courses.filter(course => userProgress.some(...))
activeCourses(cs, ps) ==
  LET Active(c) == \E i \in 1..Len(ps) :
                     ps[i].course_id = c /\ IsActive(ps[i].status)
  IN SelectSeq(cs, Active)

calculateStats_CountRecords(ps) ==
  LET InProgress(p) == p.status = "in_progress"
  IN [completedLessons |-> CompletedCount(ps),
      totalTime |-> SumMinutes(ps),
      inProgressCourses |-> Len(SelectSeq(ps, InProgress))]

\* Dashboard.calculateStats
calculateStats(ps) ==
  [completedLessons |-> CompletedCount(ps),
   totalTime |-> SumMinutes(ps),
   inProgressCourses |->
     Cardinality({ps[i].course_id : i \in {j \in 1..Len(ps) : ps[j].status = "in_progress"}})]

\* The Dashboard has fetched its data and nothing is rendered yet.
InitStats ==
  /\ user_progress = << >>
  /\ LessonDefaults
  /\ courses \in CourseLists
  /\ userProgress \in RecordLists \cup LongLists
  /\ profile = NoProfile
  /\ profiles = NoProfile
  /\ loading = FALSE
  /\ selectedCourse = NoCourse
  /\ lessons = << >>
  /\ detailProgress = << >>
  /\ detailLoading = TRUE
  /\ stats = NoStats

\* The render of the Dashboard in its 'courses' view: the three figures of
\* calculateStats and one CourseCard per course, given the records of its course.
RenderDashboard ==
  /\ ~loading
  /\ stats = NoStats
  /\ stats' = [view |-> "courses",
               stats |-> calculateStats(userProgress),
               cards |-> [i \in 1..Len(courses) |->
                            LET OfCourse(p) == p.course_id = courses[i]
                            IN progressPercentage(SelectSeq(userProgress, OfCourse))]]
  /\ UNCHANGED <<user, user_progress, pending, issued, lastOp, clock, lessonVars, courses,
                 userProgress, profile, loading, selectedCourse, lessons,
                 detailProgress, detailLoading, profiles>>

\* The render of ProgressDashboard (the 'progress' view): the weekly figures, the
\* totals, the active courses and the percentage of each of them.
RenderProgressDashboard ==
  /\ ~loading
  /\ stats = NoStats
  /\ LET active == activeCourses(courses, userProgress)
     IN stats' = [view |-> "progress",
                  weekly |-> calculateWeeklyStats(userProgress, Now),
                  totalCompleted |-> CompletedCount(userProgress),
                  totalTime |-> SumMinutes(userProgress),
                  activeCourses |-> active,
                  progress |-> [i \in 1..Len(active) |->
                                  getCourseProgress(userProgress, active[i])]]
  /\ UNCHANGED <<user, user_progress, pending, issued, lastOp, clock, lessonVars, courses,
                 userProgress, profile, loading, selectedCourse, lessons,
                 detailProgress, detailLoading, profiles>>

NextStats ==
  \/ RenderDashboard
  \/ RenderProgressDashboard

SpecStats == InitStats /\ [][NextStats]_vars

\* ------------------------------------------------------------------ updateProfile

\* The fields of a profile that updateProfile is given, their values, and the
\* mark of a field that a Partial<Profile> does not carry.
Names == {"Ann", "Bob"}
Styles == {"visual", "auditory"}
Absent == "undefined"
Profiles == [id : {UserId}, full_name : Names, learning_style : Styles]
Updates == [full_name : Names \cup {Absent}, learning_style : Styles \cup {Absent}]

\* { ...prev, ...updates }, and the SET of update(updates): the fields that
\* updates carries replace those of prev.
Merge(prev, updates) ==
  [prev EXCEPT
     !.full_name = IF updates.full_name # Absent
                   THEN updates.full_name ELSE prev.full_name,
     !.learning_style = IF updates.learning_style # Absent
                        THEN updates.learning_style ELSE prev.learning_style]

setProfileAfter_IgnoreError(prev, updates, error) ==
  IF prev # NoProfile THEN Merge(prev, updates) ELSE NoProfile

\* if (!error) setProfile(prev => prev ? { ...prev, ...updates } : null)
setProfileAfter(prev, updates, error) ==
  IF ~error
  THEN IF prev # NoProfile THEN Merge(prev, updates) ELSE NoProfile
  ELSE prev

\* updateProfile is called with any profile held, or none, and any row stored,
\* or none.
InitProfile ==
  /\ user_progress = << >>
  /\ LessonDefaults
  /\ courses = << >>
  /\ userProgress = << >>
  /\ profile \in Profiles \cup {NoProfile}
  /\ profiles \in Profiles \cup {NoProfile}
  /\ loading = FALSE
  /\ selectedCourse = NoCourse
  /\ lessons = << >>
  /\ detailProgress = << >>
  /\ detailLoading = TRUE
  /\ stats = NoStats

\* updateProfile(updates) up to its await: the update of the user's row is sent.
UpdateProfile(updates) ==
  /\ user # NoUser
  /\ Cardinality(pending) < MaxInFlight
  /\ pending' = pending \cup
       {[kind |-> "profile", id |-> NewId(pending), updates |-> updates,
         phase |-> "sent", error |-> FALSE]}
  /\ lastOp' = "other"
  /\ UNCHANGED <<user, user_progress, issued, clock, lessonVars, courses, userProgress,
                 profile, loading, selectedCourse, lessons, detailProgress,
                 detailLoading, profiles, stats>>

\* The store executes update(updates).eq('id', user.id), or fails to: the row
\* of the user, if there is one, takes the fields given.
StoreUpdatesProfile(t, ok) ==
  /\ t \in pending /\ t.kind = "profile" /\ t.phase = "sent"
  /\ profiles' = IF ok /\ profiles # NoProfile
                 THEN Merge(profiles, t.updates)
                 ELSE profiles
  /\ pending' = (pending \ {t}) \cup {[t EXCEPT !.phase = "answered", !.error = ~ok]}
  /\ lastOp' = "other"
  /\ UNCHANGED <<user, user_progress, issued, clock, lessonVars, courses, userProgress,
                 profile, loading, selectedCourse, lessons, detailProgress,
                 detailLoading, stats>>

\* updateProfile after its await.
ResolveUpdateProfile(t) ==
  /\ t \in pending /\ t.kind = "profile" /\ t.phase = "answered"
  /\ profile' = setProfileAfter(profile, t.updates, t.error)
  /\ pending' = pending \ {t}
  /\ lastOp' = IF t.error THEN "failed" ELSE "other"
  /\ UNCHANGED <<user, user_progress, issued, clock, lessonVars, courses, userProgress,
                 loading, selectedCourse, lessons, detailProgress, detailLoading,
                 profiles, stats>>

NextProfile ==
  \/ \E updates \in Updates : UpdateProfile(updates)
  \/ \E t \in pending : \E ok \in BOOLEAN : StoreUpdatesProfile(t, ok)
  \/ \E t \in pending : ResolveUpdateProfile(t)

SpecProfile == InitProfile /\ [][NextProfile]_vars

\* The profile view after loadData: the Dashboard holds the row the store holds.
InitProfileLoaded ==
  /\ InitProfile
  /\ profile # NoProfile
  /\ profile = profiles

\* updateProfile calls, one per change of an input, all of which succeed; the
\* store executes the updates in any order and answers them in any order.
NextProfileOk ==
  \/ \E updates \in Updates : UpdateProfile(updates)
  \/ \E t \in pending : StoreUpdatesProfile(t, TRUE)
  \/ \E t \in pending : ResolveUpdateProfile(t)

SpecProfileOk == InitProfileLoaded /\ [][NextProfileOk]_vars

\* ------------------------------------------------------------------ the loads of the course

\* The loads, each read failing or not, around the courses the user opens and
\* leaves and the lessons the user opens and closes.
NextLoad ==
  \/ \E t \in pending : \E a, b, c \in BOOLEAN : AnswerLoadData(t, a, b, c)
  \/ \E t \in pending : ResolveLoadData(t)
  \/ \E c \in Courses : HandleCourseClick(c)
  \/ \E t \in pending : \E a, b \in BOOLEAN : AnswerLoadLessons(t, a, b)
  \/ \E t \in pending : ResolveLoadLessons(t)
  \/ \E l \in Lessons :
        sid < MaxReloadSessions /\ HandleLessonClick(l)
  \/ CloseLesson
  \/ ResolveView
  \/ LeaveCourse

\* Every read is answered, with data or with an error, and the code after an
\* await runs once its reads are answered.
FairLoad ==
  /\ WF_vars(\E t \in pending : \E a, b, c \in BOOLEAN : AnswerLoadData(t, a, b, c))
  /\ WF_vars(\E t \in pending : ResolveLoadData(t))
  /\ WF_vars(\E t \in pending : \E a, b \in BOOLEAN : AnswerLoadLessons(t, a, b))
  /\ WF_vars(\E t \in pending : ResolveLoadLessons(t))

SpecLoad == InitLoad /\ [][NextLoad]_vars /\ FairLoad

\* ------------------------------------------------------------------ close and reload

\* The lesson sessions of the course, each close of a lesson followed by the
\* reloads of CourseDetail and of the Dashboard, whose reads are answered with
\* data.
NextReload ==
  \/ \E l \in Lessons :
        sid < MaxReloadSessions /\ HandleLessonClick(l)
  \/ UserEvent
  \/ Resolve
  \/ ResolveReloads
  \/ LeaveCourse
  \/ \E c \in Courses : Opens < MaxReloadOpens /\ HandleCourseClick(c)

SpecReload == InitEmpty /\ [][NextReload]_vars

\* ------------------------------------------------------------------ properties

\* The upserts and the attempts issued by the mounted session.
UpsertsOf(s) == {i \in 1..Len(issued) : issued[i].op = "upsert" /\ issued[i].sid = s}
AttemptsOf(s) == {i \in 1..Len(issued) : issued[i].op = "attempt" /\ issued[i].sid = s}
Last(S) == CHOOSE i \in S : \A j \in S : j <= i

\* In the step the store executes the write of upsert t.
WriteApplied(t) ==
  /\ t.kind = "upsert"
  /\ t.phase = "write"
  /\ \E u \in pending' : u.kind = "upsert" /\ u.id = t.id /\ u.phase = "written"

\* The step runs the code after the await of the write of upsert t.
WriteResolved(t) ==
  /\ t.kind = "upsert"
  /\ t.phase = "written"
  /\ ~\E u \in pending' : u.kind = "upsert" /\ u.id = t.id

\* The step is a call of handleAnswerSubmit while a question is being answered.
SubmitCalled == lastOp' = "submit" /\ ~showExplanation

\* C1: every stored progress record has completion_percentage = 100 if and only
\* if its status is completed.
C1_PercentIffCompleted ==
  \A i \in 1..Len(user_progress) :
    (user_progress[i].completion_percentage = 100)
      <=> (user_progress[i].status = "completed")

\* C2: an upsert that ran with no other upsert of its (user, lesson) in flight
\* leaves exactly one record of that key, carrying its status and percentage (so
\* the second of two upserts in sequence overwrites the first); and no key ever
\* has two records.
C2_SequentialUpsert ==
  [][/\ \A t \in pending :
          (WriteApplied(t) /\ t.alone) =>
             LET rows == RowsOf(user_progress', t.user_id, t.lesson)
             IN /\ Cardinality(rows) = 1
                /\ \A i \in rows :
                     /\ user_progress'[i].status = t.status
                     /\ user_progress'[i].completion_percentage = t.pct
     /\ \A l \in Lessons : Cardinality(RowsOf(user_progress', UserId, l)) <= 1
    ]_vars

\* C2 witness: the second of two upserts in sequence is about to write: it ran
\* alone, it found the record the first one left, and its values differ from it.
C2_Witness ==
  \E t \in pending :
    /\ t.kind = "upsert" /\ t.phase = "write" /\ t.alone
    /\ t.existing # 0
    /\ user_progress[t.existing].status # t.status
    /\ user_progress[t.existing].completion_percentage # t.pct

\* C3: a record whose status is completed keeps that status.
C3_CompletedStays ==
  [][\A i \in 1..Len(user_progress) :
        user_progress[i].status = "completed" => user_progress'[i].status = "completed"
    ]_vars

\* C4: when the quiz is completed, the score is the number of correct answers,
\* one attempt has been issued per question, and the last progress upsert the
\* session issued is {completed, 100}.
C4_QuizEnd ==
  (selectedLesson # NoLesson /\ quizCompleted) =>
     /\ score = Cardinality({i \in AttemptsOf(sid) : issued[i].row.is_correct})
     /\ Cardinality(AttemptsOf(sid)) = Len(assessments)
     /\ UpsertsOf(sid) # {}
     /\ issued[Last(UpsertsOf(sid))].status = "completed"
     /\ issued[Last(UpsertsOf(sid))].pct = 100

\* C5: handleAnswerSubmit called with no answer selected changes nothing: the
\* session state is the same, and no request is sent.
C5_EmptySubmitNoOp ==
  [][(SubmitCalled /\ selectedAnswer = "") =>
        UNCHANGED <<selectedLesson, sid, assessments, currentQuestion, selectedAnswer,
                    showExplanation, isCorrect, quizCompleted, score, user_progress,
                    user_assessments, pending, issued>>
    ]_vars

\* C5 witness: handleAnswerSubmit has just been called on a question with no
\* answer selected, and the question is still being answered.
C5_Witness ==
  /\ lastOp = "submit"
  /\ selectedLesson # NoLesson
  /\ QuizShown(selectedLesson, assessments)
  /\ selectedAnswer = ""
  /\ ~showExplanation
  /\ currentQuestion = 1

\* C6: while a session is mounted its score changes only in a submit, by +1, and
\* an accepted submit adds 1 exactly when the selected answer is the correct
\* answer of the current assessment; 0 <= score <= submitted questions <= total.
C6_Score ==
  [][/\ (sid' = sid /\ selectedLesson' # NoLesson) =>
          /\ score' >= score
          /\ score' # score => (SubmitCalled /\ score' = score + 1)
     /\ (SubmitCalled /\ selectedAnswer # "") =>
          score' = IF selectedAnswer = assessments[currentQuestion + 1].correct_answer
                   THEN score + 1
                   ELSE score
     /\ selectedLesson' # NoLesson =>
          /\ 0 <= score'
          /\ score' <= Cardinality({i \in 1..Len(issued') :
                          issued'[i].op = "attempt" /\ issued'[i].sid = sid'})
          /\ Cardinality({i \in 1..Len(issued') :
                          issued'[i].op = "attempt" /\ issued'[i].sid = sid'})
               <= Len(assessments')
    ]_vars

\* C6 witness: two questions submitted, one of them answered correctly.
C6_Witness ==
  /\ selectedLesson # NoLesson
  /\ score = 1
  /\ Cardinality(AttemptsOf(sid)) = 2
  /\ \E i \in AttemptsOf(sid) : ~issued[i].row.is_correct

\* C7: no key has two records, and when an upsert's write is applied the record
\* it found (or found missing) in its existence check is still there (or still
\* missing).
C7_CheckStillValid ==
  [][\A t \in pending :
        WriteApplied(t) =>
           /\ Cardinality(RowsOf(user_progress', t.user_id, t.lesson)) <= 1
           /\ (t.existing = 0) <=> (RowsOf(user_progress, t.user_id, t.lesson) = {})
    ]_vars

\* C8: once no upsert is in flight, the record of a lesson carries the status
\* and the percentage of the upsert issued last for that lesson.
C8_LastIssuedWins ==
  (\A t \in pending : t.kind # "upsert") =>
     \A l \in Lessons :
        LET ups == {i \in 1..Len(issued) : issued[i].op = "upsert" /\ issued[i].lesson = l}
            rows == RowsOf(user_progress, UserId, l)
        IN ups # {} =>
             /\ Cardinality(rows) = 1
             /\ \A r \in rows :
                  /\ user_progress[r].status = issued[Last(ups)].status
                  /\ user_progress[r].completion_percentage = issued[Last(ups)].pct

\* The entry i of the history is the upsert a session issues on entering lesson l.
IsOpenUpsert(i, s, l) ==
  /\ issued[i].op = "upsert"
  /\ issued[i].sid = s
  /\ issued[i].lesson = l
  /\ issued[i].status = "in_progress"
  /\ issued[i].pct = 0

\* C9: a mounted session has issued an upsert {in_progress, 0} for its lesson,
\* and every upsert it issued from a submit or a completion comes after it.
C9_OpenUpsertFirst ==
  /\ selectedLesson # NoLesson =>
       \E i \in 1..Len(issued) : IsOpenUpsert(i, sid, selectedLesson)
  /\ \A i \in UpsertsOf(sid) :
       issued[i].origin # "open" =>
          \E j \in 1..(i - 1) : IsOpenUpsert(j, sid, issued[i].lesson)

\* C9 witness: the session has issued its open upsert, then a submit upsert,
\* then the completion upsert.
C9_Witness ==
  \E i, j, k \in UpsertsOf(sid) :
    /\ i < j /\ j < k
    /\ issued[i].origin = "open"
    /\ issued[j].origin = "submit"
    /\ issued[k].origin = "next"

\* C10: an accepted submit on question i shows the explanation of question i
\* with the verdict and issues one attempt insert; after the await of that insert
\* one progress upsert is issued, with status in_progress and the percentage p
\* nearest to 100 * (i + 1) / total (a half rounds up), 0 <= p <= 100.
C10_Submit ==
  [][/\ (SubmitCalled /\ selectedAnswer # "") =>
          /\ showExplanation'
          /\ currentQuestion' = currentQuestion
          /\ ~quizCompleted'
          /\ isCorrect' =
               IF selectedAnswer = assessments[currentQuestion + 1].correct_answer
               THEN "true" ELSE "false"
          /\ Len(issued') = Len(issued) + 1
          /\ issued'[Len(issued')].op = "attempt"
          /\ issued'[Len(issued')].sid = sid
          /\ \E t \in pending' \ pending : t.kind = "attempt"
     /\ \A t \in pending :
          (t.kind = "attempt" /\ t.phase = "answered" /\ t \notin pending') =>
             /\ Len(issued') = Len(issued) + 1
             /\ LET e == issued'[Len(issued')]
                IN /\ e.op = "upsert"
                   /\ e.sid = t.sid
                   /\ e.lesson = t.lesson
                   /\ e.status = "in_progress"
                   /\ 0 <= e.pct /\ e.pct <= 100
                   /\ 2 * t.total * e.pct - t.total <= 200 * (t.q + 1)
                   /\ 200 * (t.q + 1) < 2 * t.total * e.pct + t.total
    ]_vars

\* The step is a call of handleNextQuestion, of handleCompleteLesson.
NextCalled == lastOp' = "next"
CompleteCalled == lastOp' = "complete"

\* The step sends exactly one progress upsert {status, pct} for lesson l.
IssuesOneUpsert(l, status, pct) ==
  /\ Len(issued') = Len(issued) + 1
  /\ SubSeq(issued', 1, Len(issued)) = issued
  /\ LET e == issued'[Len(issued')]
     IN /\ e.op = "upsert"
        /\ e.lesson = l
        /\ e.status = status
        /\ e.pct = pct
  /\ Cardinality(pending') = Cardinality(pending) + 1
  /\ \A u \in pending : \E t \in pending' : t.id = u.id /\ t.kind = u.kind
  /\ \A t \in pending' :
       (\A u \in pending : u.id # t.id) =>
          /\ t.kind = "upsert" /\ t.lesson = l
          /\ t.status = status /\ t.pct = pct

\* C11: the advance from the explanation of question i goes to question i + 1
\* with the answer cleared, the explanation hidden and the verdict reset, sending
\* nothing, when i + 1 < total; otherwise the quiz becomes completed and one
\* upsert {completed, 100} is sent, the question index and the score unchanged.
C11_Advance ==
  [][NextCalled =>
        IF currentQuestion + 1 < Len(assessments)
        THEN /\ currentQuestion' = currentQuestion + 1
             /\ selectedAnswer' = ""
             /\ ~showExplanation'
             /\ isCorrect' = "null"
             /\ ~quizCompleted'
             /\ score' = score
             /\ UNCHANGED <<pending, issued, user_progress, user_assessments>>
        ELSE /\ quizCompleted'
             /\ currentQuestion' = currentQuestion
             /\ score' = score
             /\ IssuesOneUpsert(selectedLesson, "completed", 100)
    ]_vars

\* C11 witness: the advance from the last question has just completed the quiz,
\* after the advance from the first question led to the second one.
C11_Witness ==
  /\ lastOp = "next"
  /\ selectedLesson # NoLesson
  /\ quizCompleted
  /\ currentQuestion = Len(assessments) - 1
  /\ currentQuestion > 0

\* C12: a click on "Mark as Complete" sends exactly one upsert {completed, 100}
\* and leaves the lesson open; the lesson is closed on behalf of that handler
\* (not by the close button, not by leaving the course) only in the step that
\* runs after the await of the write of that upsert, which the store has
\* executed by then.
C12_CompleteThenClose ==
  [][/\ CompleteCalled =>
          /\ IssuesOneUpsert(selectedLesson, "completed", 100)
          /\ selectedLesson' = selectedLesson
     /\ (/\ selectedLesson # NoLesson /\ selectedLesson' = NoLesson
         /\ lastOp' \notin {"close", "leave"}) =>
          \E t \in pending :
             /\ WriteResolved(t)
             /\ t.cont = "close"
             /\ t.status = "completed"
             /\ t.pct = 100
    ]_vars

\* C12 witness: the store has executed the write of the completion upsert and
\* its answer is on the way, while the lesson it completes is still open.
C12_Witness ==
  \E t \in pending :
    /\ t.kind = "upsert" /\ t.phase = "written" /\ t.cont = "close"
    /\ selectedLesson = t.lesson
    /\ sid = t.sid
    /\ ~QuizShown(selectedLesson, assessments)

\* C20: the attempt log only grows, by the row of an attempt insert that
\* resolves; an accepted submit sends exactly one attempt insert, for the current
\* question; and a session sends at most one attempt per question.
C20_AttemptLog ==
  [][/\ Len(user_assessments') >= Len(user_assessments)
     /\ SubSeq(user_assessments', 1, Len(user_assessments)) = user_assessments
     /\ user_assessments' # user_assessments =>
          \E t \in pending :
             /\ t.kind = "attempt"
             /\ t \notin pending'
             /\ user_assessments' = Append(user_assessments, t.row)
     /\ (SubmitCalled /\ selectedAnswer # "") =>
          /\ Cardinality(pending' \ pending) = 1
          /\ \A t \in pending' \ pending :
               /\ t.kind = "attempt"
               /\ t.row.assessment_id = assessments[currentQuestion + 1].id
               /\ t.row.user_answer = selectedAnswer
          /\ issued' = Append(issued, [op |-> "attempt", sid |-> sid,
                                       row |-> (CHOOSE t \in pending' \ pending : TRUE).row])
     /\ \A i, j \in 1..Len(issued') :
          (/\ i # j
           /\ issued'[i].op = "attempt" /\ issued'[j].op = "attempt"
           /\ issued'[i].sid = issued'[j].sid)
             => issued'[i].row.assessment_id # issued'[j].row.assessment_id
    ]_vars

\* C20 witness: both questions of a quiz were submitted and both attempts are in
\* the log, the first one before the second.
C20_Witness ==
  /\ selectedLesson # NoLesson
  /\ Cardinality(AttemptsOf(sid)) = 2
  /\ Len(user_assessments) >= 2
  /\ \E i \in AttemptsOf(sid) : \E j \in AttemptsOf(sid) :
       /\ i < j
       /\ user_assessments[Len(user_assessments) - 1] = issued[i].row
       /\ user_assessments[Len(user_assessments)] = issued[j].row

\* The session state of the mounted LessonView.
viewVars == <<selectedLesson, sid, assessments, currentQuestion, selectedAnswer,
              showExplanation, isCorrect, quizCompleted, score>>

\* C13: the step in which the store fails to execute a request of the session
\* leaves both tables, the view and the requests sent as they were; the step
\* that runs after the await of a failed request leaves both tables as they
\* were, sends no second copy of the failed request, and moves the session as
\* after a success: after a failed attempt insert the progress upsert of the
\* submit is sent and the view stays as it is; after a failed existence select
\* the write is sent; after a failed write the view stays as it is, or is
\* closed when the write is that of "Mark as Complete".
C13_FailureInvisible ==
  [][/\ \A t \in pending : \A u \in pending' :
          (/\ t.kind \in {"attempt", "upsert"}
           /\ u.kind = t.kind /\ u.id = t.id
           /\ ~t.error /\ u.error)
            => /\ UNCHANGED <<user_progress, user_assessments, issued>>
               /\ UNCHANGED viewVars
               /\ Cardinality(pending') = Cardinality(pending)
     /\ lastOp' = "failed" =>
          /\ UNCHANGED <<user_progress, user_assessments>>
          /\ \E t \in pending :
               \/ /\ t.kind = "attempt" /\ t.phase = "answered" /\ t.error
                  /\ t \notin pending'
                  /\ \A u \in pending' : u.kind # "attempt" \/ u \in pending
                  /\ UNCHANGED viewVars
                  /\ Len(issued') = Len(issued) + 1
                  /\ issued'[Len(issued')].op = "upsert"
                  /\ issued'[Len(issued')].status = "in_progress"
                  /\ issued'[Len(issued')].pct = QuizProgress(t.q, t.total)
                  /\ \E u \in pending' :
                       /\ u.kind = "upsert" /\ u.phase = "select"
                       /\ u.lesson = t.lesson /\ u.sid = t.sid
                       /\ u.status = "in_progress"
                       /\ u.pct = QuizProgress(t.q, t.total)
               \/ /\ t.kind = "upsert" /\ t.phase = "selected" /\ t.error
                  /\ t.existing = 0
                  /\ pending' = (pending \ {t}) \cup
                                  {[t EXCEPT !.phase = "write", !.error = FALSE]}
                  /\ UNCHANGED viewVars
                  /\ UNCHANGED issued
               \/ /\ WriteResolved(t) /\ t.error
                  /\ \A u \in pending' :
                       u.kind \in {"attempt", "upsert"} => u \in pending
                  /\ UNCHANGED issued
                  /\ IF t.cont = "close"
                     THEN selectedLesson' = NoLesson
                     ELSE /\ UNCHANGED viewVars
                          /\ pending' = pending \ {t}
    ]_vars

\* C13 witness: the write of "Mark as Complete" has just failed: the lesson is
\* closed, the two reloads of the close are all that is in flight, and no
\* record says completed.
C13_Witness ==
  /\ lastOp = "failed"
  /\ selectedLesson = NoLesson
  /\ Cardinality(pending) = 2
  /\ \A t \in pending : t.kind \in {"loadData", "loadLessons"}
  /\ \E i \in 1..Len(issued) : issued[i].op = "upsert" /\ issued[i].origin = "complete"
  /\ \A i \in 1..Len(user_progress) : user_progress[i].status # "completed"

\* The sum of time_spent_minutes over the records of ps at the positions S.
RECURSIVE MinutesOver(_, _)
MinutesOver(ps, S) ==
  IF S = {} THEN 0
  ELSE LET i == CHOOSE j \in S : TRUE
       IN ps[i].time_spent_minutes + MinutesOver(ps, S \ {i})

\* p is the percentage of completed records among the records of course c:
\* the integer nearest to 100 * done / total, a half rounding up; 0 without records.
IsCoursePercent(p, c) ==
  LET mine == {i \in 1..Len(userProgress) : userProgress[i].course_id = c}
      done == {i \in mine : userProgress[i].status = "completed"}
      total == Cardinality(mine)
  IN /\ p \in 0..100
     /\ IF total = 0
        THEN p = 0
        ELSE /\ 2 * total * p - total <= 200 * Cardinality(done)
             /\ 200 * Cardinality(done) < 2 * total * p + total

\* C14: the percentage rendered for a course, by ProgressDashboard and by
\* CourseCard, counts the records of that course only and is the integer in
\* 0..100 nearest to 100 * completed / total (a half rounds up), 0 when the
\* course has no record.
C14_CoursePercent ==
  /\ stats.view = "progress" =>
       \A i \in 1..Len(stats.activeCourses) :
          IsCoursePercent(stats.progress[i], stats.activeCourses[i])
  /\ stats.view = "courses" =>
       \A i \in 1..Len(courses) : IsCoursePercent(stats.cards[i], courses[i])

\* C15: the weekly figures count the records accessed at or after now - 7 days:
\* lessonsThisWeek is the number of those that are completed, minutesThisWeek
\* the sum of time_spent_minutes of all of them.
C15_WeeklyStats ==
  stats.view = "progress" =>
     LET kept == {i \in 1..Len(userProgress) :
                    userProgress[i].last_accessed_at >= Now - Week}
     IN /\ stats.weekly.lessonsThisWeek =
             Cardinality({i \in kept : userProgress[i].status = "completed"})
        /\ stats.weekly.minutesThisWeek = MinutesOver(userProgress, kept)

\* C15 witness: one record accessed before the week starts, one at the instant
\* it starts (not completed) and one within the week (completed): one lesson,
\* the minutes of the last two.
C15_Witness ==
  /\ stats.view = "progress"
  /\ Len(userProgress) = 3
  /\ userProgress[1].last_accessed_at < Now - Week
  /\ userProgress[1].status = "completed"
  /\ userProgress[2].last_accessed_at = Now - Week
  /\ userProgress[2].status = "in_progress"
  /\ userProgress[3].last_accessed_at > Now - Week
  /\ userProgress[3].status = "completed"
  /\ stats.weekly.lessonsThisWeek = 1
  /\ stats.weekly.minutesThisWeek =
       userProgress[2].time_spent_minutes + userProgress[3].time_spent_minutes

\* C16: the active courses are the courses with a record of their own whose
\* status is in_progress or completed, each once, in the order of the courses.
C16_ActiveCourses ==
  stats.view = "progress" =>
     LET active == stats.activeCourses
         Has(c) == \E i \in 1..Len(userProgress) :
                      /\ userProgress[i].course_id = c
                      /\ userProgress[i].status \in {"in_progress", "completed"}
         Pos(c) == CHOOSE i \in 1..Len(courses) : courses[i] = c
     IN /\ \A c \in Courses :
             (\E i \in 1..Len(active) : active[i] = c)
                <=> ((\E i \in 1..Len(courses) : courses[i] = c) /\ Has(c))
        /\ \A i, j \in 1..Len(active) : i < j => Pos(active[i]) < Pos(active[j])

\* C16 witness: the second course is active by a completed record, the first
\* one has only a record not started and is left out.
C16_Witness ==
  /\ stats.view = "progress"
  /\ Len(courses) = 2
  /\ stats.activeCourses = <<courses[2]>>
  /\ \E i \in 1..Len(userProgress) :
       userProgress[i].course_id = courses[1] /\ userProgress[i].status = "not_started"
  /\ \E i \in 1..Len(userProgress) :
       userProgress[i].course_id = courses[2] /\ userProgress[i].status = "completed"

\* C17: calculateStats gives the number of completed records, the sum of
\* time_spent_minutes of all records, and the number of distinct courses that
\* have a record in progress.
C17_TotalStats ==
  stats.view = "courses" =>
     /\ stats.stats.completedLessons =
          Cardinality({i \in 1..Len(userProgress) : userProgress[i].status = "completed"})
     /\ stats.stats.totalTime = MinutesOver(userProgress, 1..Len(userProgress))
     /\ stats.stats.inProgressCourses =
          Cardinality({c \in Courses :
             \E i \in 1..Len(userProgress) :
                userProgress[i].course_id = c /\ userProgress[i].status = "in_progress"})

\* C17 witness: two records in progress of one course and a completed one of the
\* other: one course in progress, one lesson completed.
C17_Witness ==
  /\ stats.view = "courses"
  /\ Len(userProgress) = 3
  /\ stats.stats.inProgressCourses = 1
  /\ stats.stats.completedLessons = 1
  /\ Cardinality({i \in 1..3 : userProgress[i].status = "in_progress"}) = 2
  /\ stats.stats.totalTime = 15

\* C18: when the update of a profile resolves without error the profile held
\* takes the fields given and keeps its other fields; when it resolves with an
\* error the profile held is as before; no profile held stays no profile held;
\* and the profile held changes in no other step.
C18_UpdateProfile ==
  [][/\ \A t \in pending :
          (t.kind = "profile" /\ t.phase = "answered" /\ t \notin pending') =>
             /\ (~t.error /\ profile # NoProfile) =>
                  /\ profile'.id = profile.id
                  /\ profile'.full_name =
                       IF t.updates.full_name # Absent
                       THEN t.updates.full_name ELSE profile.full_name
                  /\ profile'.learning_style =
                       IF t.updates.learning_style # Absent
                       THEN t.updates.learning_style ELSE profile.learning_style
             /\ t.error => profile' = profile
             /\ profile = NoProfile => profile' = NoProfile
     /\ profile' # profile =>
          \E t \in pending :
             t.kind = "profile" /\ t.phase = "answered" /\ t \notin pending'
    ]_vars

\* C18 witness: an update of the name alone is about to resolve without error
\* on a profile of another name, while an update that failed waits to resolve.
C18_Witness ==
  /\ profile # NoProfile
  /\ \E t, u \in pending :
       /\ t.kind = "profile" /\ t.phase = "answered" /\ ~t.error
       /\ t.updates.full_name \notin {Absent, profile.full_name}
       /\ t.updates.learning_style = Absent
       /\ u.kind = "profile" /\ u.phase = "answered" /\ u.error

\* The step runs the code after the await of the load t.
LoadResolved(t, kind) == t.kind = kind /\ t.phase = "answered" /\ t \notin pending'

\* C19: when a load resolves, each item whose read came back with data takes
\* that data and each item whose read came back without keeps the value held,
\* and the loading flag is cleared; a loading flag that is set is eventually
\* cleared (for CourseDetail, unless it is unmounted first).
C19_KeepOrReplace ==
  /\ [][/\ \A t \in pending :
             LoadResolved(t, "loadData") =>
                /\ courses' = IF t.coursesResult.has
                              THEN t.coursesResult.data ELSE courses
                /\ userProgress' = IF t.progressResult.has
                                   THEN t.progressResult.data ELSE userProgress
                /\ profile' = IF t.profileResult.has
                              THEN t.profileResult.data ELSE profile
                /\ ~loading'
        /\ \A t \in pending :
             (LoadResolved(t, "loadLessons") /\ selectedCourse # NoCourse
                /\ Opens = t.mount) =>
                /\ lessons' = IF t.lessonsResult.has
                              THEN t.lessonsResult.data ELSE lessons
                /\ detailProgress' = IF t.progressResult.has
                                     THEN t.progressResult.data ELSE detailProgress
                /\ ~detailLoading'
       ]_vars
  /\ (loading ~> ~loading)
  /\ ((selectedCourse # NoCourse /\ detailLoading)
        ~> (selectedCourse = NoCourse \/ ~detailLoading))

\* C19 witness: a second loadData is about to resolve with the courses read and
\* the progress not read, while the Dashboard holds the progress record an
\* earlier load fetched.
C19_Witness ==
  /\ ~loading
  /\ userProgress # << >>
  /\ \E t \in pending :
       /\ t.kind = "loadData" /\ t.phase = "answered"
       /\ t.coursesResult.has
       /\ ~t.progressResult.has
       /\ ~t.profileResult.has

\* C24: in a quiz lesson that has assessments, a completed upsert is issued only
\* after every question of the lesson was submitted in the session; "Mark as
\* Complete" is at no moment available for such a lesson.
C24_CompletedAfterQuiz ==
  \A i \in 1..Len(issued) :
    (/\ issued[i].op = "upsert"
     /\ issued[i].status = "completed"
     /\ Len(AssessmentRows(issued[i].lesson)) > 0)
      => /\ issued[i].origin # "complete"
         /\ \A a \in 1..Len(AssessmentRows(issued[i].lesson)) :
              \E j \in 1..(i - 1) :
                /\ issued[j].op = "attempt"
                /\ issued[j].row.assessment_id = AssessmentRows(issued[i].lesson)[a].id

\* C26: a completed quiz is terminal: while its view is mounted quizCompleted
\* stays true and the view takes no submit and no advance, the session issues
\* no further attempt insert and no further progress upsert, and a session
\* issues the completion upsert of the quiz at most once.
C26_CompletedTerminal ==
  [][/\ (selectedLesson # NoLesson /\ quizCompleted) =>
          /\ issued' = issued
          /\ selectedLesson' # NoLesson =>
               /\ quizCompleted'
               /\ currentQuestion' = currentQuestion
               /\ showExplanation' = showExplanation
               /\ score' = score
     /\ Cardinality({i \in 1..Len(issued') :
                       /\ issued'[i].op = "upsert"
                       /\ issued'[i].origin = "next"
                       /\ issued'[i].status = "completed"}) <= 1
    ]_vars

\* C27: while a quiz is shown, 0 <= currentQuestion <= assessments.length - 1;
\* within a session the index never decreases and changes only by +1, in an
\* advance from a question that is not the last; and handleAnswerSubmit is
\* only called while assessments[currentQuestion] exists.
C27_QuestionIndex ==
  /\ [](/\ currentQuestion >= 0
        /\ (selectedLesson # NoLesson /\ QuizShown(selectedLesson, assessments)) =>
              currentQuestion <= Len(assessments) - 1)
  /\ [][/\ (selectedLesson # NoLesson /\ selectedLesson' # NoLesson /\ sid' = sid) =>
             /\ currentQuestion' >= currentQuestion
             /\ currentQuestion' # currentQuestion =>
                  /\ currentQuestion' = currentQuestion + 1
                  /\ lastOp' = "next"
                  /\ currentQuestion < Len(assessments) - 1
                  /\ ~quizCompleted'
        /\ lastOp' = "submit" => (currentQuestion + 1) \in 1..Len(assessments)
       ]_vars

\* C27 witness: the view has advanced to the last question of the quiz and its
\* answer is submitted.
C27_Witness ==
  /\ selectedLesson # NoLesson
  /\ QuizShown(selectedLesson, assessments)
  /\ currentQuestion = Len(assessments) - 1
  /\ currentQuestion > 0
  /\ showExplanation
  /\ ~quizCompleted

\* The records of course c among rows.
OfCourse(rows, c) == LET In(r) == r.course_id = c IN SelectSeq(rows, In)

\* C28: when the Dashboard and CourseDetail hold the same snapshot of the store,
\* the percentage CourseDetail shows for the course is the percentage its
\* CourseCard and getCourseProgress show, and it lies in 0..100.
C28_SamePercent ==
  (/\ ~loading
   /\ selectedCourse # NoCourse
   /\ ~detailLoading
   /\ lessons = LessonsOf(selectedCourse)
   /\ detailProgress = OfCourse(user_progress, selectedCourse)
   /\ userProgress = user_progress)
    => /\ CourseDetailPercentage(lessons, detailProgress)
            = progressPercentage(OfCourse(userProgress, selectedCourse))
       /\ CourseDetailPercentage(lessons, detailProgress)
            = getCourseProgress(userProgress, selectedCourse)
       /\ CourseDetailPercentage(lessons, detailProgress) \in 0..100

\* C29: when several updateProfile calls were in flight and all succeeded, then
\* once all have resolved the profile the Dashboard holds equals the stored
\* profile, whatever the order in which the store executed and answered them.
C29_LocalEqualsStore ==
  pending = {} => profile = profiles

\* C30: with no authenticated user no operation of the session writes to the
\* store: opening a lesson, submitting, advancing and "Mark as Complete" send
\* no attempt insert and no progress upsert, both tables stay as they are, and
\* a submit leaves the state of the session unchanged.
C30_NoUserNoWrite ==
  [][user = NoUser =>
       /\ user_progress' = user_progress
       /\ user_assessments' = user_assessments
       /\ issued' = << >>
       /\ \A t \in pending' : t.kind = "load"
       /\ lastOp' = "submit" =>
            /\ UNCHANGED viewVars
            /\ pending' = pending
    ]_vars

\* C30 witness: without a user, handleAnswerSubmit was called on a question
\* with an answer chosen, and the question is still unanswered.
C30_Witness ==
  /\ user = NoUser
  /\ lastOp = "submit"
  /\ selectedLesson # NoLesson
  /\ QuizShown(selectedLesson, assessments)
  /\ selectedAnswer # ""
  /\ ~showExplanation
  /\ pending = {}

\* The session last mounted issued a {completed, 100} upsert for lesson l.
IssuedCompletion(l) ==
  \E i \in 1..Len(issued) :
    /\ issued[i].op = "upsert"
    /\ issued[i].lesson = l
    /\ issued[i].status = "completed"

\* Every record of lesson l among rows is completed, and there is one.
ShowsCompleted(rows, l) ==
  /\ \E i \in 1..Len(rows) : rows[i].lesson_id = l
  /\ \A i \in 1..Len(rows) : rows[i].lesson_id = l => rows[i].status = "completed"

\* C25: when a session that issued a completion upsert has been closed, the
\* CourseDetail that showed it is still mounted and the reloads have resolved,
\* CourseDetail and the Dashboard show the lesson as completed: the reload
\* read the store after the {completed, 100} upsert was applied.
C25_ReloadShowsCompleted ==
  \A l \in Lessons :
    (/\ selectedLesson = NoLesson
     /\ selectedCourse # NoCourse
     /\ Opens = 0
     /\ pending = {}
     /\ IssuedCompletion(l)
     /\ ShowsCompleted(user_progress, l))
      => /\ ShowsCompleted(detailProgress, l)
         /\ ShowsCompleted(userProgress, l)

\* The write the step issues, if it issues one: the last entry of the history.
IssuedNow == issued'[Len(issued')]

\* C21: every progress upsert writes as time_spent_minutes the minutes elapsed
\* since the start of the session, truncated (an upsert issued 30 to 59 seconds
\* after the open writes 0), and every attempt writes as time_taken_seconds the
\* elapsed time rounded to the nearest second.
C21_TimeAccounting ==
  [][(issued' # issued /\ Len(issued') > 0) =>
        /\ IssuedNow.op = "upsert" =>
             IssuedNow.timeSpent = (DateNow - startTime') \div 60000
        /\ IssuedNow.op = "attempt" =>
             IssuedNow.row.time_taken_seconds
               = (2 * (DateNow - startTime') + 1000) \div 2000
    ]_vars

\* The times written by one session are in the order of issue.
TimesNonDecreasing ==
  \A i, j \in 1..Len(issued) :
     (i < j /\ issued[i].sid = issued[j].sid) =>
       /\ (issued[i].op = "upsert" /\ issued[j].op = "upsert") =>
             issued[i].timeSpent <= issued[j].timeSpent
       /\ (issued[i].op = "attempt" /\ issued[j].op = "attempt") =>
             issued[i].row.time_taken_seconds <= issued[j].row.time_taken_seconds

\* C22: startTime is set when the view is mounted and no later operation of the
\* session changes it; so the time_taken_seconds of the successive attempts and
\* the time_spent_minutes of the successive upserts of a session never
\* decrease, and the upsert of the open writes time_spent_minutes = 0.
C22_StartTimeFixed ==
  [][/\ selectedLesson # NoLesson => startTime' = startTime
     /\ (selectedLesson = NoLesson /\ selectedLesson' # NoLesson) =>
          /\ startTime' = DateNow
          /\ IssuedNow.origin = "open"
          /\ IssuedNow.timeSpent = 0
     /\ TimesNonDecreasing'
    ]_vars

\* C22 witness: the session opened at one instant has issued upserts with
\* different minutes and attempts with different seconds.
C22_Witness ==
  /\ \E i, j \in 1..Len(issued) :
       /\ i < j
       /\ issued[i].op = "upsert" /\ issued[j].op = "upsert"
       /\ issued[i].timeSpent < issued[j].timeSpent
  /\ \E i, j \in 1..Len(issued) :
       /\ i < j
       /\ issued[i].op = "attempt" /\ issued[j].op = "attempt"
       /\ issued[i].row.time_taken_seconds < issued[j].row.time_taken_seconds

\* C23 as stated: no progress record is ever deleted, and a step changes of an
\* existing record at most its status, completion_percentage,
\* time_spent_minutes and last_accessed_at.
C23_OnlyFourColumns ==
  [][/\ Len(user_progress') >= Len(user_progress)
     /\ \A i \in 1..Len(user_progress) :
          /\ user_progress'[i].user_id = user_progress[i].user_id
          /\ user_progress'[i].lesson_id = user_progress[i].lesson_id
          /\ user_progress'[i].course_id = user_progress[i].course_id
          /\ user_progress'[i].started_at = user_progress[i].started_at
          /\ user_progress'[i].completed_at = user_progress[i].completed_at
    ]_vars

\* C23: no progress record is ever deleted; an upsert that finds an existing
\* record leaves its user_id, lesson_id, course_id and started_at as they
\* were, and changes its completed_at only when it writes the status
\* completed, to the instant that upsert read for it.
C23_RecordFrame ==
  [][/\ Len(user_progress') >= Len(user_progress)
     /\ \A i \in 1..Len(user_progress) :
          /\ user_progress'[i].user_id = user_progress[i].user_id
          /\ user_progress'[i].lesson_id = user_progress[i].lesson_id
          /\ user_progress'[i].course_id = user_progress[i].course_id
          /\ user_progress'[i].started_at = user_progress[i].started_at
          /\ user_progress'[i].completed_at # user_progress[i].completed_at =>
               /\ user_progress'[i].status = "completed"
               /\ \E t \in pending :
                    /\ WriteApplied(t)
                    /\ t.status = "completed"
                    /\ user_progress'[i].completed_at = t.data.completed_at
    ]_vars

\* C23 witness: a record created in_progress was found by a later upsert of
\* the session, which has set it completed at an instant after its creation.
C23_Witness ==
  \E i \in 1..Len(user_progress) :
    /\ user_progress[i].status = "completed"
    /\ user_progress[i].started_at < user_progress[i].completed_at
    /\ user_progress[i].time_spent_minutes > 0

====
